---- MODULE Spec2Model ----
(***************************************************************************)
(* Trip budget tracker: the Express server (src/unnamed/part_000, lines    *)
(* 23-233), the User schema (same file, lines 1-22) and the Trip schema    *)
(* (src/models/Trip.js).                                                   *)
(*                                                                         *)
(* The state is the two MongoDB collections, the wall clock read by        *)
(* jsonwebtoken, the requests that are between two awaited store calls,    *)
(* and the response written by the step that has just been taken.  Every   *)
(* awaited store call (findOne, findById, find, save) is one atomic step;  *)
(* the synchronous code between two awaits belongs to the step of the      *)
(* await that precedes it.                                                 *)
(***************************************************************************)
EXTENDS Integers, Sequences, FiniteSets

VARIABLES
    users,   \* the User collection, in insertion order; a user's id is its index
    trips,   \* the Trip collection, in insertion order; a trip's id is its index
    now,     \* the clock, in seconds (jsonwebtoken reads floor(Date.now() / 1000))
    pc,      \* per request slot: where the handler is suspended
    rq,      \* per request slot: the handler's locals while it is suspended
    last     \* the response written by the step just taken (NoEvent if none)

vars == <<users, trips, now, pc, rq, last>>

----------------------------------------------------------------------------
(* Bounds of the model *)

MaxUsers == 2
MaxTrips == 1
MaxExpenses == 2
\* the request slots: at most two handlers are suspended at a time
Procs == {1, 2}

(* The instants the clock takes: a token signed at 0 is still inside its
   lifetime at 3599 and outside it at 3600. *)
Instants == {0, 3599, 3600}

----------------------------------------------------------------------------
(* Program constants *)

JWT_SECRET == "super_secret_bionic_key_change_this_in_prod"

\* expiresIn: '1h', in seconds
ExpiresIn == 3600

\* limits.fileSize: 5 * 1024 * 1024
FileSizeLimit == 5242880

Categories == {"Lodging", "Transportation", "Food", "Entertainment", "Insurance", "Other"}

\* a request field that the client left out (undefined in JavaScript)
Absent == "<absent>"

----------------------------------------------------------------------------
(* Request inputs *)

Emails == {"a@x.io", "A@x.io", "b@x.io", "nope"}
Passwords == {"pw1", "pw2"}
Salts == {1, 2}

\* String.prototype.toLowerCase on the modelled addresses (schema option lowercase: true)
Lower(e) == IF e = "A@x.io" THEN "a@x.io" ELSE e

\* validator.isEmail on the modelled addresses
IsEmail(e) == e \in {"a@x.io", "A@x.io", "b@x.io"}

\* bcrypt.hash(password, salt): a salted one-way digest, never the plaintext itself
Hash(password, salt) == [salt |-> salt, digest |-> password]

\* Compare that hashes with a salt of its own instead of the stored one
CompareUnsalted(password, hash) == Hash(password, 0) = hash

\* bcrypt.compare(password, hash): re-hashes with the salt stored in the hash
Compare(password, hash) == Hash(password, hash.salt) = hash

(* Tokens.  A JWT is the payload {user: {id}}, iat and exp = iat + expiresIn,
   signed with a secret; the model keeps the secret it was signed with. *)
NoToken == [kind |-> "none", secret |-> "", uid |-> 0, iat |-> 0]
Garbage == [kind |-> "garbage", secret |-> "", uid |-> 0, iat |-> 0]

\* jwt.sign({user: {id}}, JWT_SECRET, {expiresIn: '1h'}) at time t
Sign(uid, t) == [kind |-> "jwt", secret |-> JWT_SECRET, uid |-> uid, iat |-> t]

\* a token an outsider signs with a key of their own
Forge(uid, t) == [kind |-> "jwt", secret |-> "not_the_server_key", uid |-> uid, iat |-> t]

(* The Authorization header: absent, or the string prefix + token text, where
   prefix is "Bearer " or "" and the token text may be empty (kind "none"). *)
NoHeader == [present |-> FALSE, bearer |-> FALSE, tok |-> NoToken]
Header(bearer, tok) == [present |-> TRUE, bearer |-> bearer, tok |-> tok]

(* The headers a client can send at time t: none, an empty one, "Bearer " alone,
   garbage, a forged token, and any token the server signed for an existing user
   at an instant up to t (a login of that user at that instant returns it),
   with or without the "Bearer " prefix. *)
Headers(t) ==
    {NoHeader, Header(FALSE, NoToken), Header(TRUE, NoToken), Header(FALSE, Garbage)}
    \cup {Header(FALSE, Forge(1, t))}
    \cup {Header(FALSE, Sign(u, i)) : u \in 1..Len(users), i \in {j \in Instants : j <= t}}
    \cup {Header(TRUE, Sign(u, t)) : u \in 1..Len(users)}

(* The callers of the trip routes: one without a header, one with a token that
   is not one, and each user with a token just signed for them. *)
Callers(t) ==
    {NoHeader, Header(FALSE, Garbage)} \cup {Header(FALSE, Sign(u, t)) : u \in 1..Len(users)}

\* multipart field "avatar": mimetype as <<type, subtype>>, size in bytes
NoFile == [present |-> FALSE, mime |-> <<"", "">>, size |-> 0]
Files ==
    {NoFile,
     [present |-> TRUE, mime |-> <<"image", "jpeg">>, size |-> 1048576],
     [present |-> TRUE, mime |-> <<"image", "jpeg">>, size |-> 5242880],
     [present |-> TRUE, mime |-> <<"image", "jpeg">>, size |-> 5242881],
     [present |-> TRUE, mime |-> <<"text", "plain">>, size |-> 1048576]}

\* Date.now() + '-' + Math.round(Math.random() * 1E9): the unique suffix of a stored file
Suffixes == {1, 2}

CreateBodies ==
    {[destination |-> "Tokyo", budget |-> 2000],
     [destination |-> Absent, budget |-> 2000]}

NoBody == [description |-> Absent, amount |-> 0, category |-> Absent]
ExpenseBodies ==
    {[description |-> "taxi", amount |-> 30, category |-> "Transportation"],
     [description |-> "lunch", amount |-> 12, category |-> Absent],
     [description |-> "gift", amount |-> 5, category |-> "Souvenirs"]}

\* trip ids a client can put in the path: the id of every trip the store can
\* hold, and one that it never holds
TripIds == 1..(MaxTrips + 1)

----------------------------------------------------------------------------
(* Responses *)

NoReq ==
    [hdr |-> NoHeader, email |-> "", password |-> "", file |-> NoFile,
     id |-> 0, body |-> NoBody]

NoEvent ==
    [op |-> "none", req |-> NoReq, gate |-> "none", ran |-> FALSE,
     status |-> 0, msg |-> "", token |-> NoToken, uid |-> 0, body |-> <<>>]

(* op: the route; req: what the client sent; gate: what auth decided in this
   step ("none" on an open route, "earlier" when the step resumes a handler that
   auth let through in an earlier step); ran: whether the route handler's body was entered; uid: the
   identity auth attached; body: the documents in the JSON answer. *)
Event(op, req, gate, ran, status, msg, token, uid, body) ==
    [op |-> op, req |-> req, gate |-> gate, ran |-> ran, status |-> status,
     msg |-> msg, token |-> token, uid |-> uid, body |-> body]

\* the locals of a suspended handler: the request's header, req.user.user.id,
\* req.body, req.file and its filename, req.params.id and the expenses of the trip
\* document it read
Idle == [hdr |-> NoHeader, uid |-> 0, email |-> "", password |-> "", file |-> NoFile,
         name |-> 0, id |-> 0, body |-> NoBody, expenses |-> <<>>]

----------------------------------------------------------------------------
(* The stores *)

\* FindOne with the query value compared as sent, the lowercase setter skipped
FindOneExact(email) ==
    LET hits == {i \in 1..Len(users) : users[i].email = email}
    IN  IF hits = {} THEN 0 ELSE CHOOSE i \in hits : \A j \in hits : i <= j

\* User.findOne({ email }): the query value is cast through the schema's setters
FindOne(email) ==
    LET hits == {i \in 1..Len(users) : users[i].email = Lower(email)}
    IN  IF hits = {} THEN 0 ELSE CHOOSE i \in hits : \A j \in hits : i <= j

\* new User({ email, password }): the lowercase setter runs on assignment
NewUser(email, hash) == [email |-> Lower(email), password |-> hash, profilePicture |-> <<>>]

\* UniqueOk without the index: every insert is taken
UniqueOff(doc) == TRUE

\* the unique index on email: an insert of a present value is refused (E11000)
UniqueOk(doc) == \A i \in 1..Len(users) : users[i].email # doc.email

\* ExpenseSchema casting of a pushed body: category defaults to 'Other'
CastExpense(body) ==
    [description |-> body.description, amount |-> body.amount,
     category |-> IF body.category = Absent THEN "Other" ELSE body.category]

\* ExpenseSchema validation: required description, enum category
ValidExpense(e) == e.description # Absent /\ e.category \in Categories

\* TripSchema validation: destination is required (every modelled body carries
\* a budget and no startDate, which is optional)
ValidTrip(t) == t.destination # Absent

\* Trip.findById(req.params.id): the id of the document, 0 for null
FindTripById(id) == IF id \in 1..Len(trips) THEN id ELSE 0

\* Owns with the comparison left out
OwnsAny(t, uid) == TRUE

\* trip.user.toString() !== req.user.user.id, negated
Owns(t, uid) == trips[t].user = uid

\* SavePush as a rewrite of the whole array from the handler's copy
SaveWhole(stored, local, e) == Append(local, e)

\* trip.expenses.push(e); trip.save(): Mongoose sends the push of a document
\* array as an atomic $push of the new element, not as a rewrite of the array the
\* handler read.  stored: the array in the store at save time; local: the array
\* the handler read at findById.
SavePush(stored, local, e) == Append(stored, e)

\* a trip document as the client sees it
TripDoc(i) ==
    [id |-> i, user |-> trips[i].user, destination |-> trips[i].destination,
     budget |-> trips[i].budget, expenses |-> trips[i].expenses]

\* Trip.find({ user }): the caller's trips, in store order
RECURSIVE FindByUser(_, _)
FindByUser(uid, n) ==
    IF n = 0 THEN <<>>
    ELSE IF trips[n].user = uid THEN Append(FindByUser(uid, n - 1), TripDoc(n))
         ELSE FindByUser(uid, n - 1)

----------------------------------------------------------------------------
(* The gate *)

\* Verify with ignoreExpiration
VerifyNoExpiry(tok, t) == tok.kind = "jwt" /\ tok.secret = JWT_SECRET

\* jwt.verify(text, JWT_SECRET) at time t: TRUE iff it returns the payload
Verify(tok, t) ==
    /\ tok.kind = "jwt"
    /\ tok.secret = JWT_SECRET
    /\ t < tok.iat + ExpiresIn

(* auth: "pass" with the decoded id, "401" when req.header('Authorization') is
   falsy (no header, or the empty string), "400" when jwt.verify throws on the
   header with its first 'Bearer ' removed. *)
Auth(hdr, t) ==
    IF ~hdr.present \/ (~hdr.bearer /\ hdr.tok.kind = "none")
    THEN [gate |-> "401", status |-> 401, msg |-> "No token, authorization denied", uid |-> 0]
    ELSE IF Verify(hdr.tok, t)
         THEN [gate |-> "pass", status |-> 0, msg |-> "", uid |-> hdr.tok.uid]
         ELSE [gate |-> "400", status |-> 400, msg |-> "Token is not valid", uid |-> 0]

\* the answer auth writes when it does not call next()
Denied(op, hdr, a) ==
    Event(op, [NoReq EXCEPT !.hdr = hdr], a.gate, FALSE, a.status, a.msg, NoToken, 0, <<>>)

\* Caught with the lookup failure answered as a missing resource
CaughtAsNotFound == [status |-> 404, msg |-> "Not Found"]

\* the catch block of a route handler: res.status(500).send('Server Error')
Caught == [status |-> 500, msg |-> "Server Error"]

\* a request that has to wait for the store takes the first free slot
Free(p) == pc[p] = "idle" /\ \A q \in Procs : q < p => pc[q] # "idle"

\* the response of the previous step has left the server
Sent == last = NoEvent

----------------------------------------------------------------------------
Init ==
    /\ users = <<>>
    /\ trips = <<>>
    /\ now = 0
    /\ pc = [p \in Procs |-> "idle"]
    /\ rq = [p \in Procs |-> Idle]
    /\ last = NoEvent

Tick ==
    /\ Sent
    /\ \E t \in Instants : t > now /\ now' = t
    /\ last' = NoEvent
    /\ UNCHANGED <<users, trips, pc, rq>>

\* res.json / res.send: the response written by the last step goes out
Deliver ==
    /\ ~Sent
    /\ last' = NoEvent
    /\ UNCHANGED <<users, trips, now, pc, rq>>

----------------------------------------------------------------------------
(* POST /api/register *)

(* lines 98-112: findOne, the answer when the address is taken, the hashing and
   the validation that save() runs before it writes.  Validation reads only
   the new document, so an address that fails it is answered in this step
   (the catch of line 123 maps the ValidationError to 400). *)
RegisterFind(p, email, password) ==
    /\ Sent
    /\ Free(p)
    /\ LET req == [NoReq EXCEPT !.email = email, !.password = password]
       IN  IF FindOne(email) # 0
           THEN /\ last' = Event("register", req, "none", TRUE, 400,
                                 "User already exists", NoToken, 0, <<>>)
                /\ UNCHANGED <<pc, rq>>
           ELSE IF ~IsEmail(Lower(email))
           THEN /\ last' = Event("register", req, "none", TRUE, 400,
                                 "Invalid Email Format", NoToken, 0, <<>>)
                /\ UNCHANGED <<pc, rq>>
           ELSE /\ pc' = [pc EXCEPT ![p] = "reg_save"]
                /\ rq' = [rq EXCEPT ![p] = [Idle EXCEPT !.email = email,
                                                         !.password = password]]
                /\ last' = NoEvent
    /\ UNCHANGED <<users, trips, now>>

\* lines 106-125: the insert of save() under the unique index, then sign; the
\* catch answers the duplicate-key error 500
RegisterSave(p, salt) ==
    /\ Sent
    /\ pc[p] = "reg_save"
    /\ LET req == [NoReq EXCEPT !.email = rq[p].email, !.password = rq[p].password]
           doc == NewUser(rq[p].email, Hash(rq[p].password, salt))
           id  == Len(users) + 1
       IN  IF ~UniqueOk(doc)
           THEN /\ last' = Event("register", req, "none", TRUE, Caught.status,
                                 Caught.msg, NoToken, 0, <<>>)
                /\ users' = users
           ELSE /\ Len(users) < MaxUsers
                /\ users' = Append(users, doc)
                /\ last' = Event("register", req, "none", TRUE, 200, "",
                                 Sign(id, now), 0,
                                 <<[id |-> id, email |-> doc.email]>>)
    /\ pc' = [pc EXCEPT ![p] = "idle"]
    /\ rq' = [rq EXCEPT ![p] = Idle]
    /\ UNCHANGED <<trips, now>>

----------------------------------------------------------------------------
(* POST /api/login *)

\* LoginRefusal that tells an unknown address from a wrong password
LoginRefusalLeaky(found) ==
    IF found = 0 THEN [status |-> 400, msg |-> "User not found"]
    ELSE [status |-> 400, msg |-> "Invalid Credentials"]

\* lines 135 and 139: the answer to a login that fails; found is the id
\* findOne returned, 0 for null
LoginRefusal(found) == [status |-> 400, msg |-> "Invalid Credentials"]

(* lines 130-150.  bcrypt.compare is awaited, but it reads only the handler's
   own copy of the document and no handler ever rewrites a stored password, so
   findOne, compare and sign are one step. *)
Login(email, password) ==
    /\ Sent
    /\ LET req == [NoReq EXCEPT !.email = email, !.password = password]
           u   == FindOne(email)
           no  == LoginRefusal(u)
       IN  IF u = 0 \/ ~Compare(password, users[IF u = 0 THEN 1 ELSE u].password)
           THEN last' = Event("login", req, "none", TRUE, no.status, no.msg,
                              NoToken, 0, <<>>)
           ELSE last' = Event("login", req, "none", TRUE, 200, "", Sign(u, now), 0,
                              <<[id |-> u, email |-> users[u].email]>>)
    /\ UNCHANGED <<users, trips, now, pc, rq>>

----------------------------------------------------------------------------
(* GET /api/auth/user *)

\* lines 154-161: the caller's document without its password
GetProfile(hdr) ==
    /\ Sent
    /\ LET req == [NoReq EXCEPT !.hdr = hdr]
           a   == Auth(hdr, now)
       IN  IF a.gate # "pass"
           THEN last' = Denied("profile", hdr, a)
           ELSE last' = Event("profile", req, "pass", TRUE, 200, "", NoToken, a.uid,
                              <<[id |-> a.uid, email |-> users[a.uid].email,
                                 profilePicture |-> users[a.uid].profilePicture]>>)
    /\ UNCHANGED <<users, trips, now, pc, rq>>

----------------------------------------------------------------------------
(* POST /api/user/avatar *)

\* IsImage with the filter left out
AnyType(file) == TRUE

\* fileFilter, line 58: file.mimetype.startsWith('image/')
IsImage(file) == file.mime[1] = "image"

\* limits.fileSize, line 56: the stream is cut when it grows past the limit
FitsLimit(file) == file.size <= FileSizeLimit

\* '/uploads/' + req.file.filename, with filename 'avatar-' + suffix + extension
PicturePath(name) == <<"/uploads/", "avatar-", name>>

(* lines 163-170: auth, then multer (an error goes to Express' error handler and
   the route handler is skipped), then the handler up to the awaited findById.
   A caller that auth passed always has a document: no user is ever deleted. *)
AvatarUpload(p, hdr, file, name) ==
    /\ Sent
    /\ Free(p)
    /\ LET req == [NoReq EXCEPT !.hdr = hdr, !.file = file]
           a   == Auth(hdr, now)
       IN  IF a.gate # "pass"
           THEN last' = Denied("avatar", hdr, a) /\ UNCHANGED <<pc, rq>>
           ELSE IF file.present /\ ~IsImage(file)
           THEN /\ last' = Event("avatar", req, "pass", FALSE, 500,
                                 "Only images are allowed", NoToken, a.uid, <<>>)
                /\ UNCHANGED <<pc, rq>>
           ELSE IF file.present /\ ~FitsLimit(file)
           THEN /\ last' = Event("avatar", req, "pass", FALSE, 500,
                                 "File too large", NoToken, a.uid, <<>>)
                /\ UNCHANGED <<pc, rq>>
           ELSE IF ~file.present
           THEN /\ last' = Event("avatar", req, "pass", TRUE, 400,
                                 "No file uploaded", NoToken, a.uid, <<>>)
                /\ UNCHANGED <<pc, rq>>
           ELSE /\ pc' = [pc EXCEPT ![p] = "av_save"]
                /\ rq' = [rq EXCEPT ![p] = [Idle EXCEPT !.hdr = hdr, !.uid = a.uid,
                                                         !.file = file, !.name = name]]
                /\ last' = NoEvent
    /\ UNCHANGED <<users, trips, now>>

\* lines 174-177: set profilePicture on the document read, save it, answer
AvatarSave(p) ==
    /\ Sent
    /\ pc[p] = "av_save"
    /\ LET req == [NoReq EXCEPT !.hdr = rq[p].hdr, !.file = rq[p].file]
       IN  /\ users' = [users EXCEPT ![rq[p].uid].profilePicture = PicturePath(rq[p].name)]
           /\ last' = Event("avatar", req, "earlier", TRUE, 200, "", NoToken, rq[p].uid,
                            <<[profilePicture |-> PicturePath(rq[p].name)]>>)
    /\ pc' = [pc EXCEPT ![p] = "idle"]
    /\ rq' = [rq EXCEPT ![p] = Idle]
    /\ UNCHANGED <<trips, now>>

----------------------------------------------------------------------------
(* GET /api/trips, POST /api/trips *)

\* lines 187-195
ListTrips(hdr) ==
    /\ Sent
    /\ LET req == [NoReq EXCEPT !.hdr = hdr]
           a   == Auth(hdr, now)
       IN  IF a.gate # "pass"
           THEN last' = Denied("list", hdr, a)
           ELSE last' = Event("list", req, "pass", TRUE, 200, "", NoToken, a.uid,
                              FindByUser(a.uid, Len(trips)))
    /\ UNCHANGED <<users, trips, now, pc, rq>>

\* lines 198-212: a validation error of save is caught and answered 500
CreateTrip(hdr, body) ==
    /\ Sent
    /\ LET req == [NoReq EXCEPT !.hdr = hdr]
           a   == Auth(hdr, now)
           doc == [user |-> a.uid, destination |-> body.destination,
                   budget |-> body.budget, expenses |-> <<>>]
       IN  IF a.gate # "pass"
           THEN last' = Denied("create", hdr, a) /\ trips' = trips
           ELSE IF ~ValidTrip(doc)
           THEN /\ last' = Event("create", req, "pass", TRUE, Caught.status, Caught.msg,
                                 NoToken, a.uid, <<>>)
                /\ trips' = trips
           ELSE /\ Len(trips) < MaxTrips
                /\ trips' = Append(trips, doc)
                /\ last' = Event("create", req, "pass", TRUE, 200, "", NoToken, a.uid,
                                 <<[id |-> Len(trips) + 1, user |-> doc.user,
                                    destination |-> doc.destination,
                                    budget |-> doc.budget, expenses |-> <<>>]>>)
    /\ UNCHANGED <<users, now, pc, rq>>

----------------------------------------------------------------------------
(* POST /api/trips/:id/expenses *)

(* lines 215-225: auth, findById, the owner check, the push onto the handler's
   copy and the validation that save() runs before it writes.  trip.user of a
   null trip throws a TypeError inside the try block; the catch of line 227
   answers it 500, as it does a ValidationError.  Validation reads only the
   handler's copy, so a body that fails it is answered in this step. *)
ExpenseFind(p, hdr, id, body) ==
    /\ Sent
    /\ Free(p)
    /\ LET req == [NoReq EXCEPT !.hdr = hdr, !.id = id]
           a   == Auth(hdr, now)
           t   == FindTripById(id)
       IN  IF a.gate # "pass"
           THEN last' = Denied("expense", hdr, a) /\ UNCHANGED <<pc, rq>>
           ELSE IF t = 0
           THEN /\ last' = Event("expense", req, "pass", TRUE, Caught.status, Caught.msg,
                                 NoToken, a.uid, <<>>)
                /\ UNCHANGED <<pc, rq>>
           ELSE IF ~Owns(t, a.uid)
           THEN /\ last' = Event("expense", req, "pass", TRUE, 401, "Not authorized",
                                 NoToken, a.uid, <<>>)
                /\ UNCHANGED <<pc, rq>>
           ELSE IF ~ValidExpense(CastExpense(body))
           THEN /\ last' = Event("expense", [req EXCEPT !.body = body], "pass", TRUE, Caught.status,
                                 Caught.msg, NoToken, a.uid, <<>>)
                /\ UNCHANGED <<pc, rq>>
           ELSE /\ pc' = [pc EXCEPT ![p] = "exp_save"]
                /\ rq' = [rq EXCEPT ![p] = [Idle EXCEPT !.hdr = hdr, !.uid = a.uid,
                                                         !.id = t, !.body = body,
                                                         !.expenses = trips[t].expenses]]
                /\ last' = NoEvent
    /\ UNCHANGED <<users, trips, now>>

\* lines 225-226: save writes the validated document to the store; the answer
\* is the handler's copy of the trip
ExpenseSave(p) ==
    /\ Sent
    /\ pc[p] = "exp_save"
    /\ LET req == [NoReq EXCEPT !.hdr = rq[p].hdr, !.id = rq[p].id, !.body = rq[p].body]
           t   == rq[p].id
           e   == CastExpense(rq[p].body)
       IN  /\ Len(trips[t].expenses) < MaxExpenses
           /\ trips' = [trips EXCEPT ![t].expenses = SavePush(@, rq[p].expenses, e)]
           /\ last' = Event("expense", req, "earlier", TRUE, 200, "", NoToken, rq[p].uid,
                                 <<[id |-> t, user |-> trips[t].user,
                                    destination |-> trips[t].destination,
                                    budget |-> trips[t].budget,
                                    expenses |-> Append(rq[p].expenses, e)]>>)
    /\ pc' = [pc EXCEPT ![p] = "idle"]
    /\ rq' = [rq EXCEPT ![p] = Idle]
    /\ UNCHANGED <<users, now>>

----------------------------------------------------------------------------
(* The accounts: registration, login and the profile route, from an empty store *)
NextAuth ==
    \/ Tick
    \/ Deliver
    \/ \E p \in Procs, e \in Emails, w \in Passwords : RegisterFind(p, e, w)
    \/ \E p \in Procs, s \in Salts : RegisterSave(p, s)
    \/ \E e \in Emails, w \in Passwords : Login(e, w)
    \/ \E h \in Headers(now) : GetProfile(h)

SpecAuth == Init /\ [][NextAuth]_vars

(* The state two successful registrations leave behind *)
InitApi ==
    /\ users = <<NewUser("a@x.io", Hash("pw1", 1)), NewUser("b@x.io", Hash("pw2", 2))>>
    /\ trips = <<>>
    /\ now = 0
    /\ pc = [p \in Procs |-> "idle"]
    /\ rq = [p \in Procs |-> Idle]
    /\ last = NoEvent

(* The avatar route, with two registered users *)
NextUpload ==
    \/ Tick
    \/ Deliver
    \/ \E p \in Procs, h \in Headers(now), f \in Files, n \in Suffixes : AvatarUpload(p, h, f, n)
    \/ \E p \in Procs : AvatarSave(p)

SpecUpload == InitApi /\ [][NextUpload]_vars

(* The trip routes, with two registered users *)
NextTrips ==
    \/ Deliver
    \/ \E h \in Callers(now) : ListTrips(h)
    \/ \E h \in Callers(now), b \in CreateBodies : CreateTrip(h, b)
    \/ \E p \in Procs, h \in Callers(now), i \in TripIds, b \in ExpenseBodies : ExpenseFind(p, h, i, b)
    \/ \E p \in Procs : ExpenseSave(p)

SpecTrips == InitApi /\ [][NextTrips]_vars

(* Every protected route behind the gate, with every header, on a workload of
   clients that wait for the answer of an upload or an expense before they send
   the next one, create one trip and add one expense to it *)
Quiet == \A p \in Procs : pc[p] = "idle"

NextGate ==
    \/ Tick
    \/ Deliver
    \/ \E h \in Headers(now) : GetProfile(h)
    \/ Quiet /\ \E p \in Procs, h \in Headers(now), f \in Files : AvatarUpload(p, h, f, 1)
    \/ \E p \in Procs : AvatarSave(p)
    \/ \E h \in Headers(now) : ListTrips(h)
    \/ trips = <<>> /\ \E h \in Headers(now), b \in CreateBodies : CreateTrip(h, b)
    \/ /\ Quiet
       /\ \A i \in 1..Len(trips) : trips[i].expenses = <<>>
       /\ \E p \in Procs, h \in Headers(now), i \in TripIds, b \in ExpenseBodies :
              ExpenseFind(p, h, i, b)
    \/ \E p \in Procs : ExpenseSave(p)

SpecGate == InitApi /\ [][NextGate]_vars

----------------------------------------------------------------------------
(* Properties *)

Protected == {"profile", "avatar", "list", "create", "expense"}

(* C1, as stated: on every protected route the gate answers 401 when the
   Authorization header is absent, 400 "Token is not valid" when the header is
   present and its token is malformed, signed with another secret or past its
   hour, and otherwise attaches the token's identity; a rejected request never
   enters the handler. *)
C1_AsStated ==
    last.gate \in {"401", "400", "pass"} =>
        LET h   == last.req.hdr
            bad == \/ h.tok.kind # "jwt"
                   \/ h.tok.secret # JWT_SECRET
                   \/ now >= h.tok.iat + ExpiresIn
        IN  /\ last.op \in Protected
            /\ ~h.present => last.status = 401 /\ ~last.ran
            /\ h.present /\ bad =>
                   last.status = 400 /\ last.msg = "Token is not valid" /\ ~last.ran
            /\ h.present /\ ~bad => last.gate = "pass" /\ last.uid = h.tok.uid

(* C1, amended: the gate answers 401 when the header is absent or is the empty
   string, 400 "Token is not valid" when the header is another string whose
   token (after "Bearer ") is malformed, signed with another secret or past its
   hour, and otherwise attaches the token's identity and lets the handler
   proceed.  A rejected request never enters the handler and the step that
   rejects it changes no store and suspends no handler; a handler is suspended
   only for a request whose token is valid at that moment, under that token's
   identity. *)
C1_GateAnswer ==
    /\ last.op \in Protected => last.gate \in {"401", "400", "pass", "earlier"}
    /\ last.gate \in {"401", "400", "pass"} =>
        LET h     == last.req.hdr
            empty == h.present /\ ~h.bearer /\ h.tok.kind = "none"
            bad   == \/ h.tok.kind # "jwt"
                     \/ h.tok.secret # JWT_SECRET
                     \/ now >= h.tok.iat + ExpiresIn
        IN  /\ last.op \in Protected
            /\ ~h.present \/ empty => last.status = 401 /\ ~last.ran
            /\ h.present /\ ~empty /\ bad =>
                   last.status = 400 /\ last.msg = "Token is not valid" /\ ~last.ran
            /\ h.present /\ ~bad => last.gate = "pass" /\ last.uid = h.tok.uid
    /\ ~last.ran /\ last.op # "none" => last.body = <<>> /\ last.status # 200

C1_GateStep ==
    /\ last'.gate \in {"401", "400"} /\ last' # last => UNCHANGED <<users, trips, pc, rq>>
    /\ \A p \in Procs :
           pc[p] = "idle" /\ pc'[p] \in {"av_save", "exp_save"} =>
               LET h == rq'[p].hdr
               IN  /\ h.present
                   /\ h.tok.kind = "jwt"
                   /\ h.tok.secret = JWT_SECRET
                   /\ now < h.tok.iat + ExpiresIn
                   /\ rq'[p].uid = h.tok.uid
    /\ <<users, trips>>' # <<users, trips>> =>
           \/ last'.gate \in {"pass", "earlier"} /\ last'.ran
           \/ last'.op \notin Protected

C1_Gate == []C1_GateAnswer /\ [][C1_GateStep]_vars

\* C1: a token the server signed is refused on the expense route once its hour is over
C1_Witness ==
    /\ last.op = "expense"
    /\ last.gate = "400"
    /\ last.req.hdr.tok.secret = JWT_SECRET
    /\ now >= last.req.hdr.tok.iat + ExpiresIn

(* C2: List trips answers exactly the stored trips whose owner is the identity
   of the caller's token, each once; Add expense by a caller who is not the
   owner of an existing trip is answered 401; and the expenses of a trip change
   only in the save of a request whose token carries the owner's identity. *)
C2_ListIsOwn ==
    /\ last.op = "list" /\ last.gate = "pass" =>
        LET me == last.req.hdr.tok.uid
        IN  /\ last.status = 200
            /\ \A k \in 1..Len(last.body) :
                   /\ last.body[k].id \in 1..Len(trips)
                   /\ last.body[k] = TripDoc(last.body[k].id)
                   /\ trips[last.body[k].id].user = me
            /\ \A i \in 1..Len(trips) :
                   trips[i].user = me =>
                       Cardinality({k \in 1..Len(last.body) : last.body[k].id = i}) = 1
            /\ \A k, m \in 1..Len(last.body) : last.body[k].id = last.body[m].id => k = m
    /\ last.op = "expense" /\ last.gate = "pass" /\ last.req.id \in 1..Len(trips) =>
           (trips[last.req.id].user # last.req.hdr.tok.uid =>
                last.status = 401 /\ last.msg = "Not authorized")

C2_OwnerOnlyStep ==
    /\ last'.status = 401 /\ last' # last => trips' = trips
    /\ \A i \in 1..Len(trips) :
           /\ Len(trips') >= i
           /\ trips'[i].user = trips[i].user
           /\ trips'[i].expenses # trips[i].expenses =>
                  \E p \in Procs :
                      /\ pc[p] = "exp_save" /\ pc'[p] = "idle"
                      /\ rq[p].id = i
                      /\ rq[p].hdr.tok.secret = JWT_SECRET
                      /\ rq[p].hdr.tok.uid = trips[i].user
    /\ Len(trips') > Len(trips) =>
           /\ last'.op = "create" /\ last'.gate = "pass"
           /\ trips'[Len(trips')].user = last'.req.hdr.tok.uid

C2_OwnerOnly == []C2_ListIsOwn /\ [][C2_OwnerOnlyStep]_vars

\* C2: a user is refused on a trip of the other user that already has expenses
C2_Witness ==
    /\ last.op = "expense"
    /\ last.status = 401
    /\ last.req.id \in 1..Len(trips)
    /\ trips[last.req.id].expenses # <<>>
    /\ trips[last.req.id].user # last.req.hdr.tok.uid

(* C3: the save of an Add expense by the owner makes the stored expenses the
   stored expenses of the moment before with the new expense appended; it is
   answered 200, changes no other trip, and a repeated request appends again. *)
C3_AppendStep ==
    \A p \in Procs :
        pc[p] = "exp_save" /\ pc'[p] = "idle" =>
            LET t == rq[p].id
                e == [description |-> rq[p].body.description,
                      amount |-> rq[p].body.amount,
                      category |-> IF rq[p].body.category = Absent THEN "Other"
                                   ELSE rq[p].body.category]
            IN  /\ last'.op = "expense" /\ last'.status = 200
                /\ Len(trips'[t].expenses) = Len(trips[t].expenses) + 1
                /\ \A k \in 1..Len(trips[t].expenses) :
                       trips'[t].expenses[k] = trips[t].expenses[k]
                /\ trips'[t].expenses[Len(trips'[t].expenses)] = e
                /\ \A i \in 1..Len(trips) : i # t => trips'[i] = trips[i]
                /\ Len(trips') = Len(trips)

C3_Append == [][C3_AppendStep]_vars

\* C3: the same request, sent twice in sequence, has left two equal entries
C3_Witness ==
    /\ last.op = "expense" /\ last.status = 200
    /\ Len(trips[last.req.id].expenses) = 2
    /\ trips[last.req.id].expenses[1] = trips[last.req.id].expenses[2]
    /\ last.body[1].expenses = trips[last.req.id].expenses

(* C4: a Register whose address is in the User Store when it arrives (compared
   as the store keeps it, in lower case) is answered 400 "User already exists"
   in that step, with no token; the step changes no user record and suspends
   no handler. *)
C4_TakenStep ==
    /\ \A p \in Procs :
           pc[p] = "idle" /\ pc'[p] = "reg_save" =>
               \A i \in 1..Len(users) : users[i].email # Lower(rq'[p].email)
    /\ last'.op = "register" /\ last' # last /\ pc' = pc =>
           ((\E i \in 1..Len(users) : users[i].email = Lower(last'.req.email)) =>
                /\ last'.status = 400
                /\ last'.msg = "User already exists"
                /\ last'.token = NoToken
                /\ users' = users)

C4_Taken == [][C4_TakenStep]_vars

\* C4: the address of a registered user, sent in upper case, is refused
C4_Witness ==
    /\ last.op = "register"
    /\ last.status = 400
    /\ last.msg = "User already exists"
    /\ last.req.email = "A@x.io"

(* C5: no two user records hold the same address, compared without case *)
C5_UniqueEmail ==
    \A i, j \in 1..Len(users) :
        Lower(users[i].email) = Lower(users[j].email) => i = j

\* C5: of two registrations that both found the address free, the second save was refused
C5_Witness ==
    /\ last.op = "register"
    /\ last.status = 500
    /\ \E i \in 1..Len(users) : users[i].email = Lower(last.req.email)

(* C6: a Login with the address and password of a registered user is answered
   200 with a token that the gate accepts, with or without "Bearer ", at every
   instant of the hour that follows, and decodes to that user's id. *)
C6_LoginAccepted ==
    last.op = "login" =>
        \A i \in 1..Len(users) :
            (users[i].email = Lower(last.req.email)
             /\ users[i].password.digest = last.req.password) =>
                /\ last.status = 200
                /\ last.token.kind = "jwt"
                /\ \A t \in Instants, b \in BOOLEAN :
                       (now <= t /\ t < now + ExpiresIn) =>
                           /\ Auth(Header(b, last.token), t).gate = "pass"
                           /\ Auth(Header(b, last.token), t).uid = i

\* C6: the second of two registered users logs in, with the address in upper case
C6_Witness ==
    /\ last.op = "login"
    /\ last.status = 200
    /\ last.req.email = "A@x.io"
    /\ Len(users) = 2
    /\ last.token.uid = 2

(* C7: a Login that fails is answered the same whether the address is unknown
   or the password is wrong: 400 "Invalid Credentials", no token, no body; and
   no Login changes a store. *)
C7_SameRefusal ==
    last.op = "login" =>
        LET known == \E i \in 1..Len(users) : users[i].email = Lower(last.req.email)
            right == \E i \in 1..Len(users) :
                         /\ users[i].email = Lower(last.req.email)
                         /\ users[i].password.digest = last.req.password
        IN  ~known \/ ~right =>
                /\ last.status = 400
                /\ last.msg = "Invalid Credentials"
                /\ last.token = NoToken
                /\ last.body = <<>>

C7_LoginStep == last'.op = "login" => users' = users /\ trips' = trips

C7_NoLeak == []C7_SameRefusal /\ [][C7_LoginStep]_vars

\* C7: a login with the address of a registered user and a wrong password is refused
C7_Witness ==
    /\ last.op = "login"
    /\ last.status = 400
    /\ \E i \in 1..Len(users) :
           /\ users[i].email = Lower(last.req.email)
           /\ users[i].password.digest # last.req.password

(* C8: an authenticated upload whose file is not an image or is larger than
   5 MiB never enters the handler and is not answered 200; the step changes no
   record and suspends no handler.  A user's profilePicture changes only in the
   save of an upload of an image of at most 5 MiB sent with a token of that
   user. *)
C8_Rejected ==
    last.op = "avatar" /\ last.gate = "pass" /\ last.req.file.present =>
        (last.req.file.mime[1] # "image" \/ last.req.file.size > FileSizeLimit =>
             ~last.ran /\ last.status # 200)

C8_UploadStep ==
    /\ (/\ last'.op = "avatar" /\ last'.gate = "pass" /\ last'.req.file.present
        /\ (last'.req.file.mime[1] # "image" \/ last'.req.file.size > FileSizeLimit)) =>
           UNCHANGED <<users, trips, pc, rq>>
    /\ \A u \in 1..Len(users) :
           /\ Len(users') >= u
           /\ users'[u].profilePicture # users[u].profilePicture =>
                  \E p \in Procs :
                      /\ pc[p] = "av_save" /\ pc'[p] = "idle"
                      /\ rq[p].hdr.tok.secret = JWT_SECRET
                      /\ rq[p].hdr.tok.uid = u
                      /\ rq[p].file.present
                      /\ rq[p].file.mime[1] = "image"
                      /\ rq[p].file.size <= FileSizeLimit
                      /\ \A v \in 1..Len(users) : v # u => users'[v] = users[v]
    /\ trips' = trips

C8_Upload == []C8_Rejected /\ [][C8_UploadStep]_vars

\* C8: a text file is refused to a user who already has a picture
C8_Witness ==
    /\ last.op = "avatar"
    /\ last.gate = "pass"
    /\ last.req.file.mime[1] = "text"
    /\ users[last.uid].profilePicture # <<>>

(* C9, as stated: an authenticated Add expense on a trip id that matches no
   trip ends in an unhandled fault: no response is written at the handler
   boundary. *)
C9_AsStated ==
    last.op = "expense" /\ last.gate = "pass" /\ last.req.id \notin 1..Len(trips) =>
        last.status = 0

(* C9, amended: an authenticated Add expense on a trip id that matches no trip
   dereferences the null lookup result inside the handler's try block; the
   catch answers it 500 "Server Error" (no 404, no 401), and no trip is created
   or modified. *)
C9_Answer ==
    last.op = "expense" /\ last.gate = "pass" /\ last.req.id \notin 1..Len(trips) =>
        last.ran /\ last.status = 500 /\ last.msg = "Server Error" /\ last.body = <<>>

C9_Step ==
    (last'.op = "expense" /\ last'.gate = "pass" /\ last'.req.id \notin 1..Len(trips)) =>
        UNCHANGED <<users, trips, pc, rq>>

C9_Caught == []C9_Answer /\ [][C9_Step]_vars

\* C9: the owner of trip 1 asks for trip 2, which does not exist
C9_Witness ==
    /\ last.op = "expense"
    /\ last.gate = "pass"
    /\ Len(trips) = 1
    /\ last.req.id = 2
    /\ trips[1].user = last.uid

(* C10, as stated: when the save of an Add expense lands on a trip that another
   Add expense has written since this one read it, the last write wins: the
   stored expenses become this handler's copy, and the other expense is lost. *)
C10_AsStatedStep ==
    \A p \in Procs :
        (pc[p] = "exp_save" /\ pc'[p] = "idle"
         /\ trips[rq[p].id].expenses # rq[p].expenses) =>
            trips'[rq[p].id].expenses = last'.body[1].expenses

C10_AsStated == [][C10_AsStatedStep]_vars

(* C10, amended: Add expense is a find / check-owner / append / save sequence
   with no lock, and two of them interleave on one trip; both are answered 200
   and the stored trip afterwards holds both new expenses, in the order of the
   saves; only the answer of the second shows its own expense without the
   other. *)
C10_BothKeptStep ==
    \A p \in Procs :
        (pc[p] = "exp_save" /\ pc'[p] = "idle"
         /\ trips[rq[p].id].expenses # rq[p].expenses) =>
            LET t   == rq[p].id
                old == trips[t].expenses
                new == trips'[t].expenses
            IN  /\ last'.status = 200
                /\ Len(new) = Len(old) + 1
                /\ Len(old) > Len(rq[p].expenses)
                /\ \A k \in 1..Len(old) : new[k] = old[k]
                /\ new[Len(new)] = last'.body[1].expenses[Len(last'.body[1].expenses)]
                /\ Len(last'.body[1].expenses) = Len(rq[p].expenses) + 1

C10_BothKept == [][C10_BothKeptStep]_vars

\* C10: two adds read the empty trip, both saved: the store holds two expenses,
\* the last answer one
C10_Witness ==
    /\ last.op = "expense" /\ last.status = 200
    /\ Len(last.body[1].expenses) = 1
    /\ Len(trips[last.req.id].expenses) = 2

====
